---- MODULE Spec2Model ----
(***************************************************************************)
(* Model of the ED System Finder proxy server (src/server.js): the four    *)
(* proxy endpoints with their retry loops, the Inara HTML table parser     *)
(* and the EDSM record formatter.                                          *)
(*                                                                         *)
(* JavaScript values are tagged records: [t |-> "undef"], [t |-> "null"],  *)
(* [t |-> "num", n |-> i], [t |-> "nan"], [t |-> "str", s |-> "..."],      *)
(* [t |-> "text", cs |-> <<characters>>], [t |-> "arr", a |-> <<...>>],    *)
(* [t |-> "obj", ...fields...], [t |-> "html", doc |-> ...].               *)
(***************************************************************************)
EXTENDS Integers, Sequences, FiniteSets, TLC

\* ------------------------------------------------------------------------
\* Bounds of the model
\* ------------------------------------------------------------------------
NumReqs == 2      \* client requests the model keeps state for
MaxRecs == 2      \* longest EDSM systems array an upstream reply carries
MaxRows == 3      \* most body rows in a table of an HTML document

\* ------------------------------------------------------------------------
\* Program constants
\* ------------------------------------------------------------------------
maxAttempts == 3          \* const maxAttempts = 3
BackoffStep == 3000       \* attempts * 3000
MinCells == 7             \* if (cells.length < 7) return

Reqs == 1 .. NumReqs

\* ------------------------------------------------------------------------
\* JavaScript values
\* ------------------------------------------------------------------------
Undefined == [t |-> "undef"]
Null == [t |-> "null"]
Num(i) == [t |-> "num", n |-> i]
Str(x) == [t |-> "str", s |-> x]
Arr(q) == [t |-> "arr", a |-> q]
\* a string kept as its sequence of characters, where the code reads into it
Text(cs) == [t |-> "text", cs |-> cs]
NaN == [t |-> "nan"]

\* ToBoolean: what `!v`, `v || w` and `v ? a : b` test
Truthy(v) ==
  CASE v.t = "undef" -> FALSE
    [] v.t = "null" -> FALSE
    [] v.t = "num" -> v.n # 0
    [] v.t = "str" -> v.s # ""
    [] v.t = "text" -> v.cs # <<>>
    [] v.t = "nan" -> FALSE
    [] OTHER -> TRUE

\* v || w
OrElse(v, w) == IF Truthy(v) THEN v ELSE w

\* v.f for a v that is neither null nor undefined (those throw a TypeError)
Get(v, f) == IF v.t = "obj" /\ f \in DOMAIN v THEN v[f] ELSE Undefined

\* Array.isArray(v)
IsArray(v) == v.t = "arr"

\* ------------------------------------------------------------------------
\* formatEdsmSystems
\* ------------------------------------------------------------------------
\* `system.information` throws a TypeError when system is null or undefined
FormatThrows(edsmSystems) ==
  \E i \in 1 .. Len(edsmSystems) : edsmSystems[i].t \in {"null", "undef"}

TypeErrorMessage == "Cannot read properties of null (reading 'information')"

\* the map callback defaulting the allegiance only when its key is missing
formatEdsmSystemMissingKeyOnly(system) ==
  LET info == OrElse(Get(system, "information"), [t |-> "obj"])
  IN [name |-> Get(system, "name"),
      economy |-> OrElse(Get(info, "economy"), Str("")),
      security |-> OrElse(Get(info, "security"), Str("")),
      allegiance |-> IF Get(info, "allegiance") = Undefined
                       THEN Str("Independent") ELSE Get(info, "allegiance"),
      factions |-> IF Truthy(Get(info, "faction")) THEN Num(1) ELSE Num(0),
      stations |-> Num(0),
      distance |-> OrElse(Get(system, "distance"), Null),
      direction |-> Null,
      bodyCount |-> OrElse(Get(system, "bodyCount"), Num(0))]

\* the map callback without the "Independent" default
formatEdsmSystemNoDefault(system) ==
  LET info == OrElse(Get(system, "information"), [t |-> "obj"])
  IN [name |-> Get(system, "name"),
      economy |-> OrElse(Get(info, "economy"), Str("")),
      security |-> OrElse(Get(info, "security"), Str("")),
      allegiance |-> OrElse(Get(info, "allegiance"), Str("")),
      factions |-> IF Truthy(Get(info, "faction")) THEN Num(1) ELSE Num(0),
      stations |-> Num(0),
      distance |-> OrElse(Get(system, "distance"), Null),
      direction |-> Null,
      bodyCount |-> OrElse(Get(system, "bodyCount"), Num(0))]

\* body of the map callback
formatEdsmSystem(system) ==
  LET info == OrElse(Get(system, "information"), [t |-> "obj"])
  IN [name |-> Get(system, "name"),
      economy |-> OrElse(Get(info, "economy"), Str("")),
      security |-> OrElse(Get(info, "security"), Str("")),
      allegiance |-> OrElse(Get(info, "allegiance"), Str("Independent")),
      factions |-> IF Truthy(Get(info, "faction")) THEN Num(1) ELSE Num(0),
      stations |-> Num(0),
      distance |-> OrElse(Get(system, "distance"), Null),
      direction |-> Null,
      bodyCount |-> OrElse(Get(system, "bodyCount"), Num(0))]

\* edsmSystems.map(...), defined when FormatThrows is false
formatEdsmSystems(edsmSystems) ==
  [i \in 1 .. Len(edsmSystems) |-> formatEdsmSystem(edsmSystems[i])]

\* ------------------------------------------------------------------------
\* Character-level helpers of the HTML parser
\* ------------------------------------------------------------------------
Digits == <<"0", "1", "2", "3", "4", "5", "6", "7", "8", "9">>
IsDigit(c) == \E i \in 1 .. Len(Digits) : Digits[i] = c
DigitVal(c) == (CHOOSE i \in 1 .. Len(Digits) : Digits[i] = c) - 1
IsSpace(c) == c = " "

\* length of the longest run of digits of cs starting at position i
RECURSIVE DigitRun(_, _)
DigitRun(cs, i) ==
  IF i <= Len(cs) /\ IsDigit(cs[i]) THEN 1 + DigitRun(cs, i + 1) ELSE 0

\* length of the longest run of white space of cs starting at position i
RECURSIVE SpaceRun(_, _)
SpaceRun(cs, i) ==
  IF i <= Len(cs) /\ IsSpace(cs[i]) THEN 1 + SpaceRun(cs, i + 1) ELSE 0

\* the number written by the n digits of cs that start at position i
RECURSIVE DigitsValue(_, _, _)
DigitsValue(cs, i, n) ==
  IF n = 0 THEN 0 ELSE 10 * DigitsValue(cs, i, n - 1) + DigitVal(cs[i + n - 1])

\* number of white-space characters at the end of cs
RECURSIVE TrailingSpace(_)
TrailingSpace(cs) ==
  IF cs # <<>> /\ IsSpace(cs[Len(cs)])
    THEN 1 + TrailingSpace(SubSeq(cs, 1, Len(cs) - 1))
    ELSE 0

\* String.prototype.trim
trim(cs) ==
  LET lead == SpaceRun(cs, 1)
  IN IF lead = Len(cs) THEN <<>>
     ELSE SubSeq(cs, lead + 1, Len(cs) - TrailingSpace(cs))

\* parseInt(string): leading white space, an optional sign, then the digits
\* as far as they go; NaN when there is no digit
parseInt(cs) ==
  LET start == SpaceRun(cs, 1) + 1
      signed == start <= Len(cs) /\ cs[start] \in {"-", "+"}
      first == IF signed THEN start + 1 ELSE start
      run == DigitRun(cs, first)
      magnitude == DigitsValue(cs, first, run)
  IN IF run = 0 THEN NaN
     ELSE IF signed /\ cs[start] = "-" THEN Num(0 - magnitude)
     ELSE Num(magnitude)

\* /(\d+\.\d+)\s*Ly/ tried at position i: the end of the captured group, or
\* 0 when there is no match starting at i
DistanceMatchAt(cs, i) ==
  LET d1 == DigitRun(cs, i)
      dot == i + d1
      d2 == IF dot <= Len(cs) /\ cs[dot] = "." THEN DigitRun(cs, dot + 1) ELSE 0
      after == dot + 1 + d2 + SpaceRun(cs, dot + 1 + d2)
  IN IF d1 > 0 /\ d2 > 0 /\ after + 1 <= Len(cs)
        /\ cs[after] = "L" /\ cs[after + 1] = "y"
       THEN dot + d2
       ELSE 0

\* distanceText.match(/(\d+\.\d+)\s*Ly/) then parseFloat(distanceMatch[1]):
\* the leftmost match; the float is kept as its integer part and the digits
\* of its fraction
parseDistance(cs) ==
  LET starts == {i \in 1 .. Len(cs) : DistanceMatchAt(cs, i) > 0}
  IN IF starts = {} THEN Null
     ELSE LET i == CHOOSE j \in starts : \A k \in starts : j <= k
              d1 == DigitRun(cs, i)
              d2 == DigitRun(cs, i + d1 + 1)
          IN [t |-> "float", int |-> DigitsValue(cs, i, d1),
              frac |-> SubSeq(cs, i + d1 + 1, i + d1 + d2)]

\* /rotate\((-?\d+)deg\)/ tried at position i of a style attribute, whose
\* characters are grouped so that "rotate(" and "deg)" are single items
RotateMatchAt(style, i) ==
  LET first == i + 1
      signed == first <= Len(style) /\ style[first] = "-"
      digits == IF signed THEN first + 1 ELSE first
      run == DigitRun(style, digits)
  IN /\ style[i] = "rotate("
     /\ run > 0
     /\ digits + run <= Len(style)
     /\ style[digits + run] = "deg)"

\* styleAttr.match(/rotate\((-?\d+)deg\)/) then parseInt(rotateMatch[1])
parseRotation(style) ==
  LET starts == {i \in 1 .. Len(style) : RotateMatchAt(style, i)}
  IN IF starts = {} THEN Null
     ELSE LET i == CHOOSE j \in starts : \A k \in starts : j <= k
              run == DigitRun(style, IF style[i + 1] = "-" THEN i + 2 ELSE i + 1)
          IN parseInt(SubSeq(style, i + 1,
                             i + run + (IF style[i + 1] = "-" THEN 1 ELSE 0)))

\* ------------------------------------------------------------------------
\* parseInaraSystemsHtml
\*
\* An HTML document is the sequence of its tables in document order.  A
\* table is [cls |-> whether it carries class tablesortercollapsed,
\* rows |-> its "tbody tr" rows in document order]; a row is the sequence
\* of its td cells; a cell is [anchor |-> Null or Text of its first <a>,
\* text |-> characters of its textContent, span |-> its first
\* .distancedirection element: Null when there is none, else
\* [t |-> "elem", style |-> Null or Text of the style attribute]].
\* ------------------------------------------------------------------------
\* doc.querySelector("table.tablesortercollapsed"): index of the first
\* matching table, 0 when none matches
FindTable(doc) ==
  LET hits == {i \in 1 .. Len(doc) : doc[i].cls}
  IN IF hits = {} THEN 0 ELSE CHOOSE i \in hits : \A j \in hits : i <= j

\* the test written `cells.length <= 7`
RowSkippedAtSeven(cells) == Len(cells) <= MinCells

\* if (cells.length < 7) return
RowSkipped(cells) == Len(cells) < MinCells

\* the direction read off the distance cell
CellDirection(cell) ==
  IF cell.span.t = "elem" /\ Truthy(cell.span.style)
    THEN parseRotation(cell.span.style.cs)
    ELSE Null

\* the record pushed for a row that is not skipped; cells[k] of the code is
\* cells[k + 1] here
ParseRow(cells) ==
  [name |-> OrElse(IF cells[1].anchor.t = "text"
                     THEN Text(trim(cells[1].anchor.cs))
                     ELSE Undefined, Text(<<>>)),
   economy |-> Text(trim(cells[2].text)),
   security |-> Text(trim(cells[3].text)),
   allegiance |-> Text(trim(cells[4].text)),
   factions |-> OrElse(parseInt(trim(cells[5].text)), Num(0)),
   stations |-> OrElse(parseInt(trim(cells[6].text)), Num(0)),
   distance |-> parseDistance(trim(cells[7].text)),
   direction |-> CellDirection(cells[7])]

\* rows.forEach(row => ...): the rows in order, each either skipped or
\* pushed at the end of systems
RECURSIVE ParseRows(_)
ParseRows(rows) ==
  IF rows = <<>> THEN <<>>
  ELSE LET before == ParseRows(SubSeq(rows, 1, Len(rows) - 1))
           row == rows[Len(rows)]
       IN IF RowSkipped(row) THEN before ELSE Append(before, ParseRow(row))

parseInaraSystemsHtml(doc) ==
  LET table == FindTable(doc)
  IN IF table = 0 THEN <<>> ELSE ParseRows(doc[table].rows)

\* ------------------------------------------------------------------------
\* The proxy endpoints
\* ------------------------------------------------------------------------
VARIABLES
  pc,         \* per request: "idle", "inflight" (awaiting axios.get),
              \* "waiting" (awaiting the backoff timer) or "done"
  ep,         \* per request: the route that handles it
  query,      \* per request: req.query
  url,        \* per request: the upstream URL the handler constructed
  attempts,   \* per request: let attempts
  lastError,  \* per request: let lastError (its message), Null when unset
  calls,      \* per request: the URLs of the axios.get calls made, in order
  replies,    \* per request: how each axios.get call settled, in order
  waits,      \* per request: the setTimeout delays awaited, in order
  log,        \* per request: the console lines written, in order
  res,        \* per request: the responses sent on res, in order
  input,      \* the argument of a call of a parsing or formatting function
  output      \* what that call returned or threw

vars == <<pc, ep, query, url, attempts, lastError, calls, replies, waits, log, res,
          input, output>>

Endpoints == {"nearest", "sphere", "bodies", "system"}

\* the required parameter each route reads
RequiredParam(e) == IF e = "nearest" THEN "referenceSystem" ELSE "systemName"

\* encodeURIComponent, on the characters the model's names use
EncodeChar(c) == IF c = " " THEN "%20" ELSE c
encodeURIComponent(cs) == [i \in 1 .. Len(cs) |-> EncodeChar(cs[i])]

\* the template literal each route builds its upstream URL from
BuildUrl(e, q) ==
  CASE e = "nearest" ->
         [host |-> "inara.cz/elite/nearest-starsystems",
          ps1 |-> encodeURIComponent(Get(q, "referenceSystem").cs),
          pi23 |-> IF Get(q, "anyPopulation") = Str("true") THEN "0" ELSE "-1"]
    [] e = "sphere" ->
         [host |-> "www.edsm.net/api-v1/sphere-systems",
          systemName |-> encodeURIComponent(Get(q, "systemName").cs),
          radius |-> OrElse(Get(q, "radius"), Num(100)),
          minRadius |-> OrElse(Get(q, "minRadius"), Num(0))]
    [] e = "bodies" ->
         [host |-> "www.edsm.net/api-system-v1/bodies",
          systemName |-> encodeURIComponent(Get(q, "systemName").cs)]
    [] e = "system" ->
         [host |-> "www.edsm.net/api-v1/system",
          systemName |-> encodeURIComponent(Get(q, "systemName").cs)]

\* the fixed `error` of each route's 500 body
FailureMessage(e) ==
  CASE e = "nearest" -> "Failed to fetch data from Inara.cz"
    [] e = "sphere" -> "Failed to fetch data from EDSM sphere-systems"
    [] e = "bodies" -> "Failed to fetch data from EDSM"
    [] e = "system" -> "Failed to fetch system data from EDSM"

\* the `error` of each route's 400 body
RequiredMessage(e) ==
  IF e = "nearest" THEN "Reference system is required" ELSE "System name is required"

EmptySphereMessage == "Empty response received from EDSM sphere-systems"
EdsmErrorMessage == "EDSM API returned an error"
EmptyBodiesMessage == "Empty response received from EDSM"
AllFailedMessage == "All request attempts failed"
NoErrorMessage == "All attempts failed"

\* console lines
ProxyLine(e) == [k |-> "proxy", target |-> e]
WaitLine(ms) == [k |-> "wait", ms |-> ms]
AttemptLine(e, n) == [k |-> "attempt", n |-> n, of |-> maxAttempts, target |-> e]
FailedLine(n, msg) == [k |-> "failed", n |-> n, msg |-> msg]
EmptyLine == [k |-> "empty"]
AllFailedLine(e) == [k |-> "allfailed", target |-> e]
ErrorLine(e, msg) == [k |-> "error", target |-> e, msg |-> msg]

\* the routes that write a line per attempt and per wait (the system route
\* writes neither)
LogsProgress(e) == e \in {"nearest", "sphere", "bodies"}

\* The part of one request's state a handler step changes
Local(r) ==
  [pc |-> pc[r], url |-> url[r], attempts |-> attempts[r], lastError |-> lastError[r],
   calls |-> calls[r], waits |-> waits[r], log |-> log[r], res |-> res[r]]

Log(s, line) == [s EXCEPT !.log = Append(@, line)]

\* res.status(status).json(body), after which the handler returns
Send(s, status, body) ==
  [s EXCEPT !.res = Append(@, [status |-> status, body |-> body]), !.pc = "done"]

\* body of a 500 reply
Failure(e, details) == [error |-> FailureMessage(e), details |-> details]

\* the wait computed from the index of the coming attempt
WaitTimeOfNextIndex(n) == (n + 1) * BackoffStep

\* attempts * 3000
WaitTime(n) == n * BackoffStep

\* console.log(`Request attempt ...`) and axios.get(url, ...)
IssueGet(s, e) ==
  LET s1 == IF LogsProgress(e) THEN Log(s, AttemptLine(e, s.attempts + 1)) ELSE s
  IN [s1 EXCEPT !.calls = Append(@, s.url), !.pc = "inflight"]

\* the routes whose loop, once left, answers with lastError (nearest,
\* bodies); sphere throws after its loop; system has nothing after its loop
AfterLoop(s, e) ==
  CASE e \in {"nearest", "bodies"} ->
         Send(Log(s, AllFailedLine(e)), 500,
              Failure(e, IF s.lastError.t = "str" /\ Truthy(s.lastError)
                           THEN s.lastError.s ELSE NoErrorMessage))
    [] e = "sphere" ->
         Send(Log(s, ErrorLine(e, AllFailedMessage)), 500, Failure(e, AllFailedMessage))
    [] e = "system" -> [s EXCEPT !.pc = "done"]

\* the loop test written `attempts <= maxAttempts`
LoopTopOneMore(s, e) ==
  IF s.attempts <= maxAttempts
    THEN IF s.attempts > 0
           THEN LET s1 == IF LogsProgress(e)
                            THEN Log(s, WaitLine(WaitTime(s.attempts))) ELSE s
                IN [s1 EXCEPT !.waits = Append(@, WaitTime(s.attempts)),
                              !.pc = "waiting"]
           ELSE IssueGet(s, e)
    ELSE AfterLoop(s, e)

\* while (attempts < maxAttempts) { if (attempts > 0) { wait } ... }: from
\* the loop test to the next await
LoopTop(s, e) ==
  IF s.attempts < maxAttempts
    THEN IF s.attempts > 0
           THEN LET s1 == IF LogsProgress(e)
                            THEN Log(s, WaitLine(WaitTime(s.attempts))) ELSE s
                IN [s1 EXCEPT !.waits = Append(@, WaitTime(s.attempts)),
                              !.pc = "waiting"]
           ELSE IssueGet(s, e)
    ELSE AfterLoop(s, e)

\* the outer catch of a route: console.error and the 500 reply
OuterCatch(s, e, msg) == Send(Log(s, ErrorLine(e, msg)), 500, Failure(e, msg))

\* the catch keeping the first error instead of the last
InnerCatchFirstError(s, e, msg) ==
  LET logged == Log(s, FailedLine(s.attempts + 1, msg))
  IN [logged EXCEPT !.attempts = @ + 1,
                    !.lastError = IF e = "system" \/ @ # Null THEN @ ELSE Str(msg)]

\* catch (error) of the retry loop of each route, for an error with message
\* msg: from the catch to the next await or to the reply
InnerCatch(s, e, msg) ==
  LET logged == Log(s, FailedLine(s.attempts + 1, msg))
      counted == [logged EXCEPT !.attempts = @ + 1,
                                !.lastError = IF e = "system" THEN @ ELSE Str(msg)]
  IN counted

\* the catch of the retry loop without the rethrow on the last attempt
CatchAndLoopNoRethrow(s, e, msg) == LoopTop(InnerCatch(s, e, msg), e)

CatchAndLoop(s, e, msg) ==
  LET counted == InnerCatch(s, e, msg)
  IN IF e \in {"sphere", "system"} /\ counted.attempts >= maxAttempts
       THEN OuterCatch(counted, e, msg)        \* throw error
       ELSE LoopTop(counted, e)

\* `!response.data || (Array.isArray(response.data) && response.data.length === 0)`
BodiesEmpty(data) == ~Truthy(data) \/ (IsArray(data) /\ Len(data.a) = 0)

\* the empty-response test of the bodies route used on the sphere route
SphereNoDataOrEmptyArray(data) == ~Truthy(data) \/ (IsArray(data) /\ Len(data.a) = 0)

\* `!response.data` of the sphere-systems route
SphereNoData(data) == ~Truthy(data)

\* `response.data.errorCode || response.data.error`
HasErrorMarker(data) == Truthy(OrElse(Get(data, "errorCode"), Get(data, "error")))

\* the message of `new Error(response.data.error || 'EDSM API returned an error')`
MarkerMessage(data) ==
  IF Truthy(Get(data, "error")) /\ Get(data, "error").t = "str"
    THEN Get(data, "error").s
    ELSE EdsmErrorMessage

\* the nearest-systems route treating an empty parse as a failed attempt
OnResponseRetryEmptyParse(s, e, data) ==
  CASE e = "nearest" ->
         IF parseInaraSystemsHtml(data.doc) = <<>>
           THEN CatchAndLoop(s, e, "No systems found")
           ELSE Send(s, 200, Arr(parseInaraSystemsHtml(data.doc)))
    [] e = "sphere" ->
         IF SphereNoData(data) THEN CatchAndLoop(s, e, EmptySphereMessage)
         ELSE IF HasErrorMarker(data) THEN CatchAndLoop(s, e, MarkerMessage(data))
         ELSE LET systemsArray == IF IsArray(data) THEN data.a ELSE <<>>
              IN IF Len(systemsArray) = 0 THEN Send(s, 200, Arr(<<>>))
                 ELSE IF FormatThrows(systemsArray)
                   THEN CatchAndLoop(s, e, TypeErrorMessage)
                 ELSE Send(s, 200, Arr(formatEdsmSystems(systemsArray)))
    [] e = "bodies" ->
         IF BodiesEmpty(data)
           THEN LET counted == [Log(s, EmptyLine) EXCEPT !.attempts = @ + 1]
                IN IF counted.attempts >= maxAttempts
                     THEN CatchAndLoop(counted, e, EmptyBodiesMessage)
                     ELSE LoopTop(counted, e)
           ELSE Send(s, 200, data)
    [] e = "system" -> Send(s, 200, data)

\* the code after `await axios.get` of each route when the call resolved
\* with response.data = data
OnResponse(s, e, data) ==
  CASE e = "nearest" -> Send(s, 200, Arr(parseInaraSystemsHtml(data.doc)))
    [] e = "sphere" ->
         IF SphereNoData(data) THEN CatchAndLoop(s, e, EmptySphereMessage)
         ELSE IF HasErrorMarker(data) THEN CatchAndLoop(s, e, MarkerMessage(data))
         ELSE LET systemsArray == IF IsArray(data) THEN data.a ELSE <<>>
              IN IF Len(systemsArray) = 0 THEN Send(s, 200, Arr(<<>>))
                 ELSE IF FormatThrows(systemsArray)
                   THEN CatchAndLoop(s, e, TypeErrorMessage)
                 ELSE Send(s, 200, Arr(formatEdsmSystems(systemsArray)))
    [] e = "bodies" ->
         IF BodiesEmpty(data)
           THEN LET counted == [Log(s, EmptyLine) EXCEPT !.attempts = @ + 1]
                IN IF counted.attempts >= maxAttempts
                     THEN CatchAndLoop(counted, e, EmptyBodiesMessage)
                     ELSE LoopTop(counted, e)      \* continue
           ELSE Send(s, 200, data)
    [] e = "system" -> Send(s, 200, data)

\* the code after `await axios.get` when the call settled as outcome o
OnSettled(s, e, o) ==
  IF o.kind = "ok" THEN OnResponse(s, e, o.data) ELSE CatchAndLoop(s, e, o.msg)

\* the validation written `=== undefined`, which lets an empty name through
OnRequestUndefinedOnly(s, e, q) ==
  IF Get(q, RequiredParam(e)) = Undefined
    THEN Send(s, 400, [error |-> RequiredMessage(e)])
    ELSE LoopTop(Log([s EXCEPT !.url = BuildUrl(e, q), !.attempts = 0,
                                !.lastError = Null], ProxyLine(e)), e)

\* the handler of a route, from its start to its first await or its reply
OnRequest(s, e, q) ==
  IF ~Truthy(Get(q, RequiredParam(e)))
    THEN Send(s, 400, [error |-> RequiredMessage(e)])
    ELSE LoopTop(Log([s EXCEPT !.url = BuildUrl(e, q), !.attempts = 0,
                                !.lastError = Null], ProxyLine(e)), e)

\* ------------------------------------------------------------------------
\* Inputs of the model
\* ------------------------------------------------------------------------
NameSample == {Undefined, Text(<<>>), Text(<<"S", "o", "l">>), Text(<<"H", "R", " ", "1">>)}

Queries(e) ==
  CASE e = "nearest" ->
         {[t |-> "obj", referenceSystem |-> n, anyPopulation |-> p] :
            n \in NameSample, p \in {Undefined, Str("true")}}
    [] e = "sphere" ->
         {[t |-> "obj", systemName |-> n, radius |-> d] :
            n \in NameSample, d \in {Undefined, Str("50")}}
    [] OTHER -> {[t |-> "obj", systemName |-> n] : n \in NameSample}

\* how axios.get rejects: no response, the 15 s timeout, a status outside 2xx
Rejections ==
  {[kind |-> "error", msg |-> m] :
     m \in {"Network Error", "timeout of 15000ms exceeded",
            "Request failed with status code 503"}}

Ok(data) == [kind |-> "ok", data |-> data]

\* sequences over S of length at most n
SeqsUpTo(S, n) == UNION {[1 .. k -> S] : k \in 0 .. n}

\* an EDSM system with neither information block, distance nor body count
SolRecord == [t |-> "obj", name |-> Str("Sol")]

\* elements of an EDSM systems array: a system, null, a non-object
ElementSample == {SolRecord, Null, Num(7)}

\* cells and rows of Inara documents
Cell(cs) == [anchor |-> Null, text |-> cs, span |-> Null]
NameCell(cs) == [anchor |-> Text(cs), text |-> cs, span |-> Null]
DistanceCell(cs, style) ==
  [anchor |-> Null, text |-> cs, span |-> [t |-> "elem", style |-> style]]

\* a row of n cells carrying the given name and distance
Row(n, name, dist, style) ==
  [i \in 1 .. n |->
     CASE i = 1 -> NameCell(name)
       [] i = 2 -> Cell(<<"A", "g">>)
       [] i = 3 -> Cell(<<"L", "o", "w">>)
       [] i = 4 -> Cell(<<>>)
       [] i = 5 -> Cell(<<" ", "3", " ">>)
       [] i = 6 -> Cell(<<"x">>)
       [] i = 7 -> DistanceCell(dist, style)
       [] OTHER -> Cell(<<>>)]

\* a row of 7 cells carrying the given faction and station cell texts
CountsRow(name, factions, stations, style) ==
  [Row(7, name, <<>>, style) EXCEPT ![5] = Cell(factions), ![6] = Cell(stations)]

RowSample ==
  {Row(7, <<"S", "o", "l">>, <<"4", ".", "3", "8", " ", "L", "y">>,
       Text(<<"rotate(", "-", "4", "5", "deg)">>)),
   Row(8, <<" ", "H", "R">>, <<"1", "2", ".", "0", "L", "y">>, Null),
   Row(6, <<"A">>, <<>>, Null),
   Row(0, <<>>, <<>>, Null),
   CountsRow(<<"N">>, <<"-", "5">>, <<"1", "2", "a">>,
             Text(<<"rotate(", "2", "7", "0", "deg)">>)),
   CountsRow(<<"P">>, <<"a", "1">>, <<"+", "7">>, Text(<<"x", "rotate(", "deg)">>)),
   CountsRow(<<"Q">>, <<"0">>, <<>>, Text(<<"rotate(", "-", "2", "0", "0", "deg)">>))}

Table(cls, rows) == [cls |-> cls, rows |-> rows]

\* documents: no table, one table, a table followed by another
DocSet ==
  LET tables == {Table(c, rows) : c \in BOOLEAN, rows \in SeqsUpTo(RowSample, MaxRows)}
      second == {Table(TRUE, <<Row(7, <<"Z">>, <<>>, Null)>>), Table(FALSE, <<>>)}
  IN {<<>>} \cup {<<t>> : t \in tables} \cup {<<t, u>> : t \in tables, u \in second}

\* the documents the nearest-systems upstream answers with
DocSample ==
  {<<>>,
   <<Table(TRUE, <<Row(6, <<"A">>, <<>>, Null)>>)>>,
   <<Table(TRUE, <<Row(7, <<"S", "o", "l">>, <<"4", ".", "3", "8", " ", "L", "y">>,
                       Text(<<"rotate(", "-", "4", "5", "deg)">>))>>)>>}

\* what response.data can be on each route
Payloads(e) ==
  CASE e = "nearest" -> {[t |-> "html", doc |-> d] : d \in DocSample}
    [] e = "sphere" ->
         {Str(""), Null, [t |-> "obj"],
          [t |-> "obj", error |-> Str("System not found")],
          [t |-> "obj", errorCode |-> Num(1)]}
         \cup {Arr(q) : q \in SeqsUpTo(ElementSample, MaxRecs)}
    [] e = "bodies" ->
         {Str(""), Null, Arr(<<>>),
          [t |-> "obj", error |-> Str("System not found")],
          [t |-> "obj", name |-> Str("Sol"), bodies |-> Arr(<<Str("Earth")>>)]}
    [] e = "system" ->
         {Str(""), Arr(<<>>),
          [t |-> "obj", error |-> Str("System not found")],
          [t |-> "obj", name |-> Str("Sol"), coords |-> Str("0/0/0")]}

Outcomes(e) == Rejections \cup {Ok(d) : d \in Payloads(e)}

\* ------------------------------------------------------------------------
\* Actions
\* ------------------------------------------------------------------------
Pending == [t |-> "pending"]
Threw(msg) == [t |-> "threw", msg |-> msg]

InitRequests ==
  /\ pc = [r \in Reqs |-> "idle"]
  /\ ep = [r \in Reqs |-> "none"]
  /\ query = [r \in Reqs |-> Undefined]
  /\ url = [r \in Reqs |-> Null]
  /\ attempts = [r \in Reqs |-> 0]
  /\ lastError = [r \in Reqs |-> Null]
  /\ calls = [r \in Reqs |-> <<>>]
  /\ replies = [r \in Reqs |-> <<>>]
  /\ waits = [r \in Reqs |-> <<>>]
  /\ log = [r \in Reqs |-> <<>>]
  /\ res = [r \in Reqs |-> <<>>]

Init ==
  /\ InitRequests
  /\ input = Null
  /\ output = Pending

\* the attempt counter kept in one variable shared by all requests
StoreSharedCounter(r, s) ==
  /\ pc' = [pc EXCEPT ![r] = s.pc]
  /\ url' = [url EXCEPT ![r] = s.url]
  /\ attempts' = [x \in Reqs |-> s.attempts]
  /\ lastError' = [lastError EXCEPT ![r] = s.lastError]
  /\ calls' = [calls EXCEPT ![r] = s.calls]
  /\ waits' = [waits EXCEPT ![r] = s.waits]
  /\ log' = [log EXCEPT ![r] = s.log]
  /\ res' = [res EXCEPT ![r] = s.res]

\* the state of request r after a handler step that left it as s
Store(r, s) ==
  /\ pc' = [pc EXCEPT ![r] = s.pc]
  /\ url' = [url EXCEPT ![r] = s.url]
  /\ attempts' = [attempts EXCEPT ![r] = s.attempts]
  /\ lastError' = [lastError EXCEPT ![r] = s.lastError]
  /\ calls' = [calls EXCEPT ![r] = s.calls]
  /\ waits' = [waits EXCEPT ![r] = s.waits]
  /\ log' = [log EXCEPT ![r] = s.log]
  /\ res' = [res EXCEPT ![r] = s.res]

\* a client request reaches route e with query q
Request(r, e, q) ==
  /\ pc[r] = "idle"
  /\ ep' = [ep EXCEPT ![r] = e]
  /\ query' = [query EXCEPT ![r] = q]
  /\ Store(r, OnRequest(Local(r), e, q))
  /\ UNCHANGED <<replies, input, output>>

\* the pending axios.get of request r settles as o
Settle(r, o) ==
  /\ pc[r] = "inflight"
  /\ o \in Outcomes(ep[r])
  /\ replies' = [replies EXCEPT ![r] = Append(@, o)]
  /\ Store(r, OnSettled(Local(r), ep[r], o))
  /\ UNCHANGED <<ep, query, input, output>>

\* the backoff timer of request r fires
TimerFires(r) ==
  /\ pc[r] = "waiting"
  /\ Store(r, IssueGet(Local(r), ep[r]))
  /\ UNCHANGED <<ep, query, replies, input, output>>

\* the requests the main specification follows to their reply
MainReqs == {1}

Next ==
  \E r \in MainReqs :
    \/ \E e \in Endpoints : \E q \in Queries(e) : Request(r, e, q)
    \/ \E o \in UNION {Outcomes(e) : e \in Endpoints} : Settle(r, o)
    \/ TimerFires(r)

Spec == Init /\ [][Next]_vars

\* ------------------------------------------------------------------------
\* The routes under fairness: every upstream call completes or times out
\* (axios timeout: 15000) and every backoff timer fires.  The EDSM arrays
\* received have at most one element.
\* ------------------------------------------------------------------------
LiveOutcomes(e) ==
  Rejections \cup {Ok(d) : d \in {x \in Payloads(e) : IsArray(x) => Len(x.a) <= 1}}

LiveSettle(r) ==
  /\ pc[r] = "inflight"
  /\ \E o \in LiveOutcomes(ep[r]) : Settle(r, o)

NextLive ==
  \E r \in MainReqs :
    \/ \E e \in Endpoints : \E q \in Queries(e) : Request(r, e, q)
    \/ LiveSettle(r)
    \/ TimerFires(r)

Fairness == \A r \in MainReqs : WF_vars(LiveSettle(r)) /\ WF_vars(TimerFires(r))

SpecLive == Init /\ [][NextLive]_vars /\ Fairness

\* ------------------------------------------------------------------------
\* Several client requests in progress at once: the handlers interleave at
\* their awaits.  Every request runs to its reply; the inputs are a part of
\* Queries and Outcomes.
\* ------------------------------------------------------------------------
ConcQueries(e) ==
  CASE e = "nearest" ->
         {[t |-> "obj", referenceSystem |-> Text(<<"S", "o", "l">>),
           anyPopulation |-> Undefined]}
    [] e = "sphere" ->
         {[t |-> "obj", systemName |-> n, radius |-> Undefined] :
            n \in {Text(<<"S", "o", "l">>), Text(<<"H", "R", " ", "1">>)}}
    [] OTHER -> {[t |-> "obj", systemName |-> Text(<<"S", "o", "l">>)]}

ConcOutcomes(e) ==
  {[kind |-> "error", msg |-> "Network Error"]} \cup
  CASE e = "nearest" -> {Ok([t |-> "html", doc |-> <<>>])}
    [] e = "sphere" -> {Ok(Arr(<<SolRecord>>))}
    [] e = "bodies" -> {Ok(Arr(<<>>)),
                        Ok([t |-> "obj", name |-> Str("Sol"),
                            bodies |-> Arr(<<Str("Earth")>>)])}
    [] e = "system" -> {Ok([t |-> "obj", name |-> Str("Sol"),
                            coords |-> Str("0/0/0")])}

NextConc ==
  \E r \in Reqs :
    \/ \E e \in Endpoints : \E q \in ConcQueries(e) : Request(r, e, q)
    \/ pc[r] = "inflight" /\ \E o \in ConcOutcomes(ep[r]) : Settle(r, o)
    \/ TimerFires(r)

SpecConc == Init /\ [][NextConc]_vars

\* ------------------------------------------------------------------------
\* The parser and the formatter on their own: one call on a drawn argument
\* ------------------------------------------------------------------------
\* the information block of an EDSM system
InformationSet ==
  {Undefined, Null}
  \cup {[t |-> "obj", economy |-> ec, security |-> se, allegiance |-> al, faction |-> fa] :
          ec \in {Undefined, Str("Agriculture")},
          se \in {Undefined, Str("Low")},
          al \in {Undefined, Null, Str(""), Str("Federation")},
          fa \in {Undefined, Str("Sol Workers' Party")}}

\* EDSM systems, every field supplied or not
RecordSet ==
  {[t |-> "obj", name |-> nm, information |-> inf, distance |-> di, bodyCount |-> bc] :
     nm \in {Undefined, Str("Sol")},
     inf \in InformationSet,
     di \in {Undefined, Num(0), Num(5)},
     bc \in {Undefined, Num(0), Num(3)}}

\* the arrays handed to formatEdsmSystems: every single system, and the
\* arrays over the sample elements
FormatInputs ==
  {Arr(<<rec>>) : rec \in RecordSet}
  \cup {Arr(q) : q \in SeqsUpTo(ElementSample, MaxRecs)}

ParseInputs == {[t |-> "html", doc |-> d] : d \in DocSet}

InitFunctions ==
  /\ InitRequests
  /\ input \in FormatInputs \cup ParseInputs
  /\ output = Pending

\* formatEdsmSystems(input)
Format ==
  /\ input.t = "arr"
  /\ output = Pending
  /\ output' = IF FormatThrows(input.a) THEN Threw(TypeErrorMessage)
                ELSE Arr(formatEdsmSystems(input.a))
  /\ UNCHANGED <<pc, ep, query, url, attempts, lastError, calls, replies, waits,
                 log, res, input>>

\* parseInaraSystemsHtml(input)
Parse ==
  /\ input.t = "html"
  /\ output = Pending
  /\ output' = Arr(parseInaraSystemsHtml(input.doc))
  /\ UNCHANGED <<pc, ep, query, url, attempts, lastError, calls, replies, waits,
                 log, res, input>>

NextFunctions == Format \/ Parse

SpecFunctions == InitFunctions /\ [][NextFunctions]_vars

\* ------------------------------------------------------------------------
\* Properties of the retry loops
\* ------------------------------------------------------------------------
Last(q) == q[Len(q)]

\* request r was answered with the given status
Answered(r, status) == res[r] # <<>> /\ res[r][1].status = status

\* a settled call counts as a failed attempt on route e
FailedAttempt(e, o) ==
  \/ o.kind = "error"
  \/ /\ o.kind = "ok"
     /\ \/ e = "sphere" /\ ~Truthy(o.data)
        \/ e = "sphere" /\ (Truthy(Get(o.data, "error")) \/ Truthy(Get(o.data, "errorCode")))
        \/ e = "sphere" /\ IsArray(o.data) /\ \E i \in DOMAIN o.data.a : o.data.a[i] = Null
        \/ e = "bodies" /\ (~Truthy(o.data) \/ o.data = Arr(<<>>))

AllFailed(r) == \A i \in DOMAIN replies[r] : FailedAttempt(ep[r], replies[r][i])

\* C1: a request never causes more than maxAttempts = 3 upstream GETs; while
\* every attempt so far has failed and fewer than 3 were made the request
\* goes on; after 3 failed attempts it ends with the terminal failure (500),
\* and a terminal failure is only ever sent after exactly 3 GETs.
C1_ExactlyMaxAttempts ==
  /\ maxAttempts = 3
  /\ \A r \in Reqs :
       /\ Len(calls[r]) <= 3
       /\ Len(replies[r]) <= Len(calls[r])
       /\ (calls[r] # <<>> /\ AllFailed(r) /\ Len(replies[r]) < 3) => pc[r] # "done"
       /\ (AllFailed(r) /\ Len(replies[r]) = 3) => (pc[r] = "done" /\ Answered(r, 500))
       /\ Answered(r, 500) => (Len(calls[r]) = 3 /\ Len(replies[r]) = 3 /\ AllFailed(r))

\* the bodies route exhausted by a rejection, an empty body and an empty
\* array: both places that increment attempts were used
C1_Witness ==
  \E r \in Reqs :
    /\ ep[r] = "bodies" /\ Answered(r, 500)
    /\ replies[r][1].kind = "error"
    /\ replies[r][2] = Ok(Null)
    /\ replies[r][3] = Ok(Arr(<<>>))

\* what route e sends for a successful response carrying data
Delivered(e, data) ==
  CASE e = "nearest" -> Arr(parseInaraSystemsHtml(data.doc))
    [] e = "sphere" -> Arr(formatEdsmSystems(IF IsArray(data) THEN data.a ELSE <<>>))
    [] OTHER -> data

AttemptLines(r) == {i \in DOMAIN log[r] : log[r][i].k = "attempt"}

\* C2 (as claimed): when a request ends in success after k failed attempts,
\* the client receives the payload of the successful attempt and exactly
\* k + 1 per-attempt progress lines were logged, on every route.
C2_SuccessAfterFailures ==
  \A r \in Reqs :
    Answered(r, 200) =>
      /\ res[r] = <<[status |-> 200, body |-> Delivered(ep[r], Last(replies[r]).data)]>>
      /\ Cardinality(AttemptLines(r)) = Len(replies[r])

\* C3: the waits of a request are 3000 ms then 6000 ms: none before the
\* first attempt, one of (failed attempts so far) * 3000 before each later
\* attempt, none after the last failed attempt.
C3_BackoffDurations ==
  \A r \in Reqs :
    /\ \A i \in DOMAIN waits[r] : waits[r][i] = i * 3000
    /\ Len(waits[r]) <= 2
    /\ pc[r] = "waiting" =>
         (Len(waits[r]) = Len(replies[r]) /\ Len(calls[r]) = Len(replies[r]))
    /\ pc[r] = "inflight" =>
         (Len(waits[r]) = Len(replies[r]) /\ Len(calls[r]) = Len(replies[r]) + 1)
    /\ pc[r] = "done" =>
         (Len(calls[r]) = Len(replies[r])
            /\ Len(waits[r]) = (IF calls[r] = <<>> THEN 0 ELSE Len(calls[r]) - 1))

\* the bodies route exhausted through its empty-response path, both waits made
C3_Witness ==
  \E r \in Reqs :
    /\ ep[r] = "bodies" /\ pc[r] = "done" /\ Answered(r, 500)
    /\ replies[r][1] = Ok(Arr(<<>>))
    /\ replies[r][2].kind = "error"
    /\ waits[r] = <<3000, 6000>>

\* the message of the failure a settled call amounts to on route e
FailureOf(e, o) ==
  IF o.kind = "error" THEN o.msg
  ELSE CASE e = "bodies" -> "Empty response received from EDSM"
         [] e = "sphere" /\ ~Truthy(o.data) ->
              "Empty response received from EDSM sphere-systems"
         [] e = "sphere" /\ IsArray(o.data) ->
              "Cannot read properties of null (reading 'information')"
         [] e = "sphere" /\ Truthy(Get(o.data, "error")) -> Get(o.data, "error").s
         [] OTHER -> "EDSM API returned an error"

FixedError(e) ==
  CASE e = "nearest" -> "Failed to fetch data from Inara.cz"
    [] e = "sphere" -> "Failed to fetch data from EDSM sphere-systems"
    [] e = "bodies" -> "Failed to fetch data from EDSM"
    [] e = "system" -> "Failed to fetch system data from EDSM"

\* C4: a request whose budget is exhausted is answered once, with 500 and
\* {error, details}: error the route's fixed message, details the message
\* of the failure of the last attempt.
C4_TerminalFailureBody ==
  \A r \in Reqs :
    Answered(r, 500) =>
      res[r] = <<[status |-> 500,
                  body |-> [error |-> FixedError(ep[r]),
                            details |-> FailureOf(ep[r], Last(replies[r]))]]>>

\* exhausted with three different failures, the last one an empty response
C4_Witness ==
  \E r \in Reqs :
    /\ ep[r] = "bodies" /\ Answered(r, 500)
    /\ replies[r][1].kind = "error" /\ replies[r][2].kind = "error"
    /\ replies[r][1] # replies[r][2]
    /\ replies[r][3].kind = "ok"

\* C5: a request without its required parameter, or with an empty one, is
\* answered 400 with an error body; no upstream call, wait or retry is made.
C5_MissingParameter ==
  \A r \in Reqs :
    (pc[r] # "idle" /\ Get(query[r], RequiredParam(ep[r])) \in {Undefined, Text(<<>>)}) =>
      /\ pc[r] = "done"
      /\ res[r] = <<[status |-> 400, body |-> [error |-> RequiredMessage(ep[r])]]>>
      /\ calls[r] = <<>> /\ waits[r] = <<>> /\ replies[r] = <<>>

\* a request carrying an empty system name was answered
C5_Witness ==
  \E r \in Reqs :
    /\ ep[r] = "sphere" /\ Get(query[r], "systemName") = Text(<<>>)
    /\ Answered(r, 400)

\* C6: on the sphere route an empty array ends the request at that attempt
\* with 200 and []: no call and no wait follows it.
C6_SphereEmptyIsSuccess ==
  \A r \in Reqs :
    (ep[r] = "sphere" /\ replies[r] # <<>> /\ Last(replies[r]) = Ok(Arr(<<>>))) =>
      /\ pc[r] = "done"
      /\ res[r] = <<[status |-> 200, body |-> Arr(<<>>)]>>
      /\ Len(calls[r]) = Len(replies[r])
      /\ Len(waits[r]) = Len(replies[r]) - 1

\* an empty array on the second attempt, one attempt still left
C6_Witness ==
  \E r \in Reqs :
    /\ ep[r] = "sphere" /\ Len(replies[r]) = 2
    /\ replies[r][1].kind = "error"
    /\ replies[r][2] = Ok(Arr(<<>>))
    /\ pc[r] = "done"

\* ------------------------------------------------------------------------
\* Properties of the parser and the formatter
\* ------------------------------------------------------------------------
\* the rows of the first table of doc that carries the class, <<>> without one
MatchedRows(doc) ==
  IF \E i \in DOMAIN doc : doc[i].cls
    THEN doc[CHOOSE i \in DOMAIN doc :
               doc[i].cls /\ \A j \in 1 .. i - 1 : ~doc[j].cls].rows
    ELSE <<>>

\* C7: the parser returns one record per row of the matched table that has
\* at least 7 cells, in the order of the rows; rows with fewer cells are
\* absent; without a matching table it returns the empty sequence.
C7_RowsKeptInOrder ==
  (input.t = "html" /\ output # Pending) =>
    LET rows == MatchedRows(input.doc)
        kept == {i \in DOMAIN rows : Len(rows[i]) >= 7}
        out == output.a
    IN /\ Len(out) = Cardinality(kept)
       /\ \A i \in kept :
            out[Cardinality({j \in kept : j <= i})] = ParseRow(rows[i])

\* a table whose second row is too short: the first and third rows are
\* returned, in that order, and the table that follows is not read
C7_Witness ==
  /\ input.t = "html" /\ output # Pending
  /\ Len(input.doc) = 2 /\ input.doc[1].cls /\ input.doc[2].cls
  /\ Len(input.doc[1].rows) = 3
  /\ Len(input.doc[1].rows[1]) = 8
  /\ Len(input.doc[1].rows[2]) = 6
  /\ Len(input.doc[1].rows[3]) = 7
  /\ Len(output.a) = 2
  /\ output.a[1].name = Text(<<"H", "R">>)
  /\ output.a[2].name = Text(<<"S", "o", "l">>)

CanonicalFields ==
  {"name", "economy", "security", "allegiance", "factions", "stations",
   "distance", "direction", "bodyCount"}

\* C8 (as claimed): every record the formatter emits has every canonical
\* field with a defined value, whatever the source record omits.
C8_AllFieldsDefined ==
  (input.t = "arr" /\ output.t = "arr") =>
    \A i \in DOMAIN output.a :
      \A f \in CanonicalFields :
        f \in DOMAIN output.a[i] /\ output.a[i][f] # Undefined

\* C9 (as claimed): a non-empty array from the sphere-systems upstream is
\* answered at that attempt with 200 and as many records, in order,
\* whatever its elements are; the call is not retried.
C9_NormalizerNeverFails ==
  \A r \in Reqs :
    (/\ ep[r] = "sphere" /\ replies[r] # <<>>
     /\ Last(replies[r]).kind = "ok"
     /\ IsArray(Last(replies[r]).data)
     /\ Len(Last(replies[r]).data.a) > 0) =>
      /\ pc[r] = "done"
      /\ Answered(r, 200)
      /\ Len(res[r][1].body.a) = Len(Last(replies[r]).data.a)
      /\ Len(calls[r]) = Len(replies[r])

\* the systems that carry no information block
NoInformationRecords == {rec \in RecordSet : rec.information \in {Undefined, Null}}

\* what the formatter makes of each of them
NoInformationDefaults ==
  \A rec \in NoInformationRecords :
    LET out == formatEdsmSystems(<<rec>>)[1]
    IN /\ out.economy = Str("") /\ out.security = Str("")
       /\ out.allegiance = Str("Independent")
       /\ out.factions = Num(0) /\ out.stations = Num(0)
       /\ out.direction = Null

NormalizedSol ==
  [name |-> Str("Sol"), economy |-> Str(""), security |-> Str(""),
   allegiance |-> Str("Independent"), factions |-> Num(0), stations |-> Num(0),
   distance |-> Null, direction |-> Null, bodyCount |-> Num(0)]

\* C10: a system without information block is formatted with economy "",
\* security "", allegiance "Independent", factions 0, stations 0 and
\* direction null; a sphere-systems request whose upstream returns the
\* single system Sol, with no information block, distance or body count, is
\* answered 200 with exactly the normalized Sol record.
C10_NoInformationBlock ==
  /\ NoInformationDefaults
  /\ \A r \in Reqs :
       (/\ ep[r] = "sphere" /\ replies[r] # <<>>
        /\ Last(replies[r]) = Ok(Arr(<<[t |-> "obj", name |-> Str("Sol")]>>))) =>
         res[r] = <<[status |-> 200, body |-> Arr(<<NormalizedSol>>)]>>

\* the upstream returned the single system Sol and the request was answered
C10_Witness ==
  \E r \in Reqs :
    /\ ep[r] = "sphere" /\ Answered(r, 200)
    /\ Get(query[r], "radius") = Str("50")
    /\ Last(replies[r]) = Ok(Arr(<<[t |-> "obj", name |-> Str("Sol")]>>))

\* the allegiance string a source element supplies, Undefined when it
\* supplies none (no information block, key missing, null or empty)
SuppliedAllegiance(system) ==
  IF system.t = "obj" /\ "information" \in DOMAIN system
       /\ system.information.t = "obj"
       /\ "allegiance" \in DOMAIN system.information
       /\ system.information.allegiance.t = "str"
       /\ system.information.allegiance.s # ""
    THEN system.information.allegiance
    ELSE Undefined

\* C11: the formatted allegiance is the source's allegiance string,
\* unchanged, when the source supplies a non-empty one, and "Independent"
\* when it supplies none (no information block, key missing, null, empty).
C11_AllegianceDefault ==
  (input.t = "arr" /\ output.t = "arr") =>
    \A i \in DOMAIN output.a :
      output.a[i].allegiance =
        (IF SuppliedAllegiance(input.a[i]) = Undefined
           THEN Str("Independent")
           ELSE SuppliedAllegiance(input.a[i]))

\* a system whose allegiance is the empty string was formatted
C11_Witness ==
  /\ input.t = "arr" /\ output.t = "arr" /\ Len(input.a) = 1
  /\ Get(Get(input.a[1], "information"), "allegiance") = Str("")
  /\ output.a[1].allegiance = Str("Independent")

\* C19 (as claimed): the formatted distance is the source's distance
\* whenever the source supplies a number, 0 included, and null only when it
\* supplies none; bodyCount is the source's body count when supplied, 0
\* otherwise.
C19_DistanceAndBodyCountKept ==
  (input.t = "arr" /\ output.t = "arr") =>
    \A i \in DOMAIN output.a :
      LET distance == Get(input.a[i], "distance")
          bodyCount == Get(input.a[i], "bodyCount")
      IN /\ output.a[i].distance = (IF distance.t = "num" THEN distance ELSE Null)
         /\ output.a[i].bodyCount = (IF bodyCount.t = "num" THEN bodyCount ELSE Num(0))

\* C15 (as claimed): in every record the parser emits, factions and
\* stations are integers that are not negative (and never NaN).
C15_CountsNonNegative ==
  (input.t = "html" /\ output # Pending) =>
    \A k \in DOMAIN output.a :
      /\ output.a[k].factions.t = "num" /\ output.a[k].factions.n >= 0
      /\ output.a[k].stations.t = "num" /\ output.a[k].stations.n >= 0

\* C16 (as claimed): in every record the parser emits, direction is null
\* or an integer within -180 .. 180.
C16_DirectionInRange ==
  (input.t = "html" /\ output # Pending) =>
    \A k \in DOMAIN output.a :
      \/ output.a[k].direction = Null
      \/ /\ output.a[k].direction.t = "num"
         /\ output.a[k].direction.n >= -180 /\ output.a[k].direction.n <= 180

\* ------------------------------------------------------------------------
\* Properties of what the routes accept as a success
\* ------------------------------------------------------------------------
\* an empty response: no body, or an empty array
EmptyData(data) == ~Truthy(data) \/ data = Arr(<<>>)

\* a body carrying an error marker
MarkedData(data) == Truthy(Get(data, "error")) \/ Truthy(Get(data, "errorCode"))

\* the last attempt of request r is treated as a failure that can be
\* retried: no 200, another attempt while the budget lasts, 500 after it
TreatedAsFailure(r) ==
  /\ ~Answered(r, 200)
  /\ Len(replies[r]) < 3 => pc[r] \in {"waiting", "inflight"}
  /\ Len(replies[r]) = 3 => Answered(r, 500)

\* C12 (as claimed): on the bodies route and on the system route an empty
\* response is a failure that is retried, never a 200.
C12_EmptyIsRetried ==
  \A r \in Reqs :
    (/\ ep[r] \in {"bodies", "system"} /\ replies[r] # <<>>
     /\ Last(replies[r]).kind = "ok"
     /\ EmptyData(Last(replies[r]).data)) =>
      TreatedAsFailure(r)

\* C13 (as claimed): on the sphere, bodies and system routes a body that
\* carries an error marker is a failed attempt, never a 200.
C13_ErrorMarkerIsFailure ==
  \A r \in Reqs :
    (/\ ep[r] \in {"sphere", "bodies", "system"} /\ replies[r] # <<>>
     /\ Last(replies[r]).kind = "ok"
     /\ MarkedData(Last(replies[r]).data)) =>
      TreatedAsFailure(r)

\* C14: on the nearest-systems route a resolved upstream call ends the
\* request at that attempt with 200 and an array, which is empty when the
\* document has no matching table or no row of at least 7 cells.
C14_NearestAnyResponseSucceeds ==
  \A r \in Reqs :
    (ep[r] = "nearest" /\ replies[r] # <<>> /\ Last(replies[r]).kind = "ok") =>
      /\ pc[r] = "done"
      /\ Len(res[r]) = 1 /\ res[r][1].status = 200
      /\ res[r][1].body.t = "arr"
      /\ Len(calls[r]) = Len(replies[r])
      /\ Len(waits[r]) = Len(replies[r]) - 1
      /\ (\A i \in DOMAIN MatchedRows(Last(replies[r]).data.doc) :
            Len(MatchedRows(Last(replies[r]).data.doc)[i]) < 7) =>
           res[r][1].body = Arr(<<>>)

\* a document whose only row is too short, received on the second attempt
C14_Witness ==
  \E r \in Reqs :
    /\ ep[r] = "nearest" /\ Len(replies[r]) = 2
    /\ replies[r][2].kind = "ok"
    /\ Len(replies[r][2].data.doc) = 1
    /\ Len(replies[r][2].data.doc[1].rows) = 1
    /\ Answered(r, 200)

FailedLineNumbers(r) == {log[r][i].n : i \in {j \in DOMAIN log[r] : log[r][j].k = "failed"}}

\* C20 (as claimed): attempts equals the number of upstream GETs of the
\* request that ended unsuccessfully, never exceeds 3, and every failure
\* line names an attempt between 1 and 3.
C20_AttemptsCountsFailures ==
  \A r \in Reqs :
    /\ attempts[r] =
         Cardinality({i \in DOMAIN replies[r] : FailedAttempt(ep[r], replies[r][i])})
    /\ attempts[r] <= 3
    /\ \A n \in FailedLineNumbers(r) : n >= 1 /\ n <= 3

\* ------------------------------------------------------------------------
\* Order of the attempts of one request, requests interleaved
\* ------------------------------------------------------------------------
FailedReplies(r) ==
  Cardinality({i \in DOMAIN replies[r] : FailedAttempt(ep[r], replies[r][i])})

\* C17: the attempts of one request are strictly sequential (at most one
\* GET of the request outstanding; attempt n+1 is issued only after attempt
\* n failed and its wait was made and has elapsed), every attempt goes to
\* the URL built once from the request's parameters, and with requests
\* interleaved each request keeps its own counter and its own budget of 3.
C17_SequentialOwnBudget ==
  \A r \in Reqs :
    /\ Len(calls[r]) - Len(replies[r]) = (IF pc[r] = "inflight" THEN 1 ELSE 0)
    /\ \A i \in DOMAIN calls[r] :
         /\ calls[r][i] = url[r]
         /\ calls[r][i] = BuildUrl(ep[r], query[r])
         /\ i > 1 => /\ Len(replies[r]) >= i - 1
                     /\ FailedAttempt(ep[r], replies[r][i - 1])
                     /\ Len(waits[r]) >= i - 1
    /\ pc[r] = "waiting" => Len(calls[r]) = Len(waits[r])
    /\ Len(calls[r]) <= 3
    /\ attempts[r] >= FailedReplies(r)
    /\ ep[r] # "bodies" => attempts[r] = FailedReplies(r)
    /\ (calls[r] # <<>> /\ AllFailed(r) /\ Len(replies[r]) < 3) => pc[r] # "done"
    /\ Answered(r, 500) => (Len(replies[r]) = 3 /\ AllFailed(r))

\* two requests to different URLs in the middle of their retries, one with
\* its second GET outstanding, the other waiting before its third
C17_Witness ==
  \E r1 \in Reqs : \E r2 \in Reqs :
    /\ r1 # r2
    /\ calls[r1] # <<>> /\ calls[r2] # <<>>
    /\ calls[r1][1] # calls[r2][1]
    /\ pc[r1] = "inflight" /\ Len(calls[r1]) = 2 /\ attempts[r1] = 1
    /\ pc[r2] = "waiting" /\ Len(calls[r2]) = 2 /\ attempts[r2] = 2

\* ------------------------------------------------------------------------
\* Every request is answered once
\* ------------------------------------------------------------------------
AtMostOneResponse ==
  \A r \in Reqs :
    /\ Len(res[r]) <= 1
    /\ \A i \in DOMAIN res[r] : res[r][i].status \in {200, 400, 500}
    /\ res[r] # <<>> => pc[r] = "done"
    /\ pc[r] = "done" => Len(res[r]) = 1

\* C18: provided every upstream call settles, every request received on any
\* of the four routes eventually has exactly one response, of status 200,
\* 400 or 500; no handler ends without a response and none sends a second.
C18_EventuallyOneResponse ==
  /\ []AtMostOneResponse
  /\ \A r \in MainReqs : (pc[r] # "idle") ~> (Len(res[r]) = 1)

\* the system route, whose loop has no code after it, answering 500 from
\* the rethrow of its third failure
C18_Witness ==
  \E r \in Reqs :
    /\ ep[r] = "system" /\ Len(replies[r]) = 3
    /\ Len(res[r]) = 1 /\ res[r][1].status = 500

====
